---- MODULE Spec2Model ----
(***************************************************************************)
(* Model of src/magic_mcp/server.py: the tool generate_magic_square, the   *)
(* response normaliser _parse_magic_square_response and the three          *)
(* recursive extractors it uses.                                           *)
(*                                                                         *)
(* Python objects are tagged records:                                      *)
(*   None / JSON null   [t |-> "null"]                                     *)
(*   bool               [t |-> "bool",  b |-> TRUE]                        *)
(*   int                [t |-> "int",   i |-> 3]                           *)
(*   float              [t |-> "float", h |-> 5]     the value h/2         *)
(*   str                [t |-> "str",   s |-> <<"1", "2">>]  its characters*)
(*   list               [t |-> "list",  items |-> << ... >>]               *)
(*   dict               [t |-> "dict",  entries |-> << [key, val], ... >>] *)
(*                      in insertion order, the keys distinct              *)
(*   a raised exception [t |-> "raise", exc |-> "ValueError"]              *)
(*   an HTTP body       [t |-> "body",  valid |-> TRUE, json |-> value]    *)
(*                      valid: the body parses as JSON, to the value json  *)
(***************************************************************************)
EXTENDS Integers, Sequences, FiniteSets, TLC

VARIABLES pc, size, debug, requests, response, data, outcome

vars == <<pc, size, debug, requests, response, data, outcome>>

----------------------------------------------------------------------------
\* Python values

None == [t |-> "null"]

PyBool(b) == [t |-> "bool", b |-> b]

PyInt(i) == [t |-> "int", i |-> i]

PyFloat(h) == [t |-> "float", h |-> h]

PyStr(s) == [t |-> "str", s |-> s]

PyList(items) == [t |-> "list", items |-> items]

PyDict(entries) == [t |-> "dict", entries |-> entries]

Entry(key, val) == [key |-> key, val |-> val]

Raised(exc) == [t |-> "raise", exc |-> exc]

\* isinstance(x, dict), isinstance(x, list), isinstance(x, str)
IsDict(x) == x.t = "dict"

IsList(x) == x.t = "list"

IsStr(x) == x.t = "str"

\* isinstance(x, int): bool is a subclass of int
IsInstanceInt(x) == x.t \in {"int", "bool"}

\* isinstance(x, (int, float))
IsInstanceNumber(x) == x.t \in {"int", "bool", "float"}

\* the integer a bool or int compares equal to (True == 1, False == 0)
IntVal(x) == IF x.t = "bool" THEN (IF x.b THEN 1 ELSE 0) ELSE x.i

\* twice the numeric value of an int, bool or float (floats are halves)
TwiceVal(x) == IF x.t = "float" THEN x.h ELSE 2 * IntVal(x)

\* key in payload
HasKey(payload, key) == \E n \in 1..Len(payload.entries) : payload.entries[n].key = key

\* payload[key], for a key that is present
Lookup(payload, key) ==
    LET n == CHOOSE n \in 1..Len(payload.entries) : payload.entries[n].key = key
    IN  payload.entries[n].val

\* payload.get(key)
Get(payload, key) == IF HasKey(payload, key) THEN Lookup(payload, key) ELSE None

\* list(payload.values()), in insertion order
Values(payload) == [n \in 1..Len(payload.entries) |-> payload.entries[n].val]

\* the keys of a dict
Keys(payload) == {payload.entries[n].key : n \in 1..Len(payload.entries)}

\* the truth value Python's `or` and `if` test
Truthy(x) ==
    CASE x.t = "null" -> FALSE
      [] x.t = "bool" -> x.b
      [] x.t = "int" -> x.i # 0
      [] x.t = "float" -> x.h # 0
      [] x.t = "str" -> Len(x.s) > 0
      [] x.t = "list" -> Len(x.items) > 0
      [] x.t = "dict" -> Len(x.entries) > 0
      [] OTHER -> TRUE

----------------------------------------------------------------------------
\* str.isdigit and int(str)

\* the decimal digits, and one character that str.isdigit accepts but int()
\* does not parse (a superscript digit)
DecimalChars == <<"0", "1", "2", "3", "4", "5", "6", "7", "8", "9">>

SuperscriptTwo == "sup2"

IsDecimalChar(c) == \E n \in 1..10 : DecimalChars[n] = c

DigitValue(c) == (CHOOSE n \in 1..10 : DecimalChars[n] = c) - 1

\* value.isdigit(): not empty, and every character a digit
isdigit(s) ==
    /\ Len(s) > 0
    /\ \A n \in 1..Len(s) : IsDecimalChar(s[n]) \/ s[n] = SuperscriptTwo

RECURSIVE DecimalValue(_, _)
DecimalValue(s, n) ==
    IF n = 0 THEN 0 ELSE 10 * DecimalValue(s, n - 1) + DigitValue(s[n])

\* int(value) of a string that passed isdigit: the base-10 value, or
\* ValueError for a digit character that is not a decimal
int(s) ==
    IF \A n \in 1..Len(s) : IsDecimalChar(s[n])
    THEN PyInt(DecimalValue(s, Len(s)))
    ELSE Raised("ValueError")

----------------------------------------------------------------------------
\* _extract_square

\* a changed order of the preferred keys: the list reversed
preferred_keys_reversed ==
    <<"output", "data", "result", "square", "magicSquare", "magic_square">>

preferred_keys ==
    <<"magic_square", "magicSquare", "square", "result", "data", "output">>

\* the check without the comparison of the rows' lengths
IsNumericGridAnyWidth(payload) ==
    /\ Len(payload.items) > 0
    /\ \A r \in 1..Len(payload.items) : IsList(payload.items[r])
    /\ \A r \in 1..Len(payload.items) :
         \A c \in 1..Len(payload.items[r].items) :
             IsInstanceNumber(payload.items[r].items[c])

\* lines 75-80: a non-empty list of lists of one length whose cells are numbers
IsNumericGrid(payload) ==
    /\ Len(payload.items) > 0
    /\ \A r \in 1..Len(payload.items) : IsList(payload.items[r])
    /\ LET width == Len(payload.items[1].items)
       IN  /\ \A r \in 1..Len(payload.items) : Len(payload.items[r].items) = width
           /\ \A r \in 1..Len(payload.items) :
                \A c \in 1..Len(payload.items[r].items) :
                    IsInstanceNumber(payload.items[r].items[c])

RECURSIVE _extract_square(_), SquareInPreferred(_, _), SquareInItems(_, _)

\* lines 63-67: the first preferred key, from the n-th on, whose value holds a
\* matrix
SquareInPreferred(payload, n) ==
    IF n > Len(preferred_keys) THEN None
    ELSE LET candidate == IF HasKey(payload, preferred_keys[n])
                          THEN _extract_square(Lookup(payload, preferred_keys[n]))
                          ELSE None
         IN  IF candidate.t # "null" THEN candidate
             ELSE SquareInPreferred(payload, n + 1)

\* lines 68-71 and 82-85: the first of the values, from the n-th on, that
\* holds a matrix
SquareInItems(items, n) ==
    IF n > Len(items) THEN None
    ELSE LET candidate == _extract_square(items[n])
         IN  IF candidate.t # "null" THEN candidate
             ELSE SquareInItems(items, n + 1)

_extract_square(payload) ==
    IF IsDict(payload)
    THEN LET candidate == SquareInPreferred(payload, 1)
         IN  IF candidate.t # "null" THEN candidate
             ELSE SquareInItems(Values(payload), 1)
    ELSE IF IsList(payload)
    THEN IF IsNumericGrid(payload) THEN payload
         ELSE SquareInItems(payload.items, 1)
    ELSE None

----------------------------------------------------------------------------
\* _extract_size

candidate_keys == <<"n", "size", "squareSize", "order">>

\* lines 98 and 100: the value of an alias key is taken as the order
IsSizeValue(value) ==
    \/ IsInstanceInt(value) /\ IntVal(value) > 0
    \/ IsStr(value) /\ isdigit(value.s)

\* lines 99 and 101: what is returned for such a value
SizeOfValue(value) == IF IsInstanceInt(value) THEN value ELSE int(value.s)

RECURSIVE _extract_size(_), SizeInAliases(_, _), SizeInValues(_, _)

\* lines 96-101
SizeInAliases(payload, n) ==
    IF n > Len(candidate_keys) THEN [found |-> FALSE, val |-> None]
    ELSE LET value == Get(payload, candidate_keys[n])
         IN  IF IsSizeValue(value) THEN [found |-> TRUE, val |-> SizeOfValue(value)]
             ELSE SizeInAliases(payload, n + 1)

\* lines 102-105
SizeInValues(items, n) ==
    IF n > Len(items) THEN None
    ELSE LET result == _extract_size(items[n])
         IN  IF result.t # "null" THEN result
             ELSE SizeInValues(items, n + 1)

_extract_size(payload) ==
    IF IsDict(payload)
    THEN LET hit == SizeInAliases(payload, 1)
         IN  IF hit.found THEN hit.val
             ELSE SizeInValues(Values(payload), 1)
    ELSE None

----------------------------------------------------------------------------
\* _extract_debug

debug_keys == <<"debug", "logs", "diagnostics", "metadata">>

RECURSIVE _extract_debug(_), DebugInValues(_, _)

\* lines 113-115: the first alias key present, if any
FirstDebugKey(payload) ==
    LET present == {n \in 1..Len(debug_keys) : HasKey(payload, debug_keys[n])}
    IN  IF present = {} THEN 0
        ELSE CHOOSE n \in present : \A m \in present : n <= m

\* lines 116-119
DebugInValues(items, n) ==
    IF n > Len(items) THEN None
    ELSE LET result == _extract_debug(items[n])
         IN  IF result.t # "null" THEN result
             ELSE DebugInValues(items, n + 1)

_extract_debug(payload) ==
    IF IsDict(payload)
    THEN IF FirstDebugKey(payload) # 0
         THEN Lookup(payload, debug_keys[FirstDebugKey(payload)])
         ELSE DebugInValues(Values(payload), 1)
    ELSE None

----------------------------------------------------------------------------
\* numpy: np.array(..., dtype=float), np.rint, np.allclose, astype(int), tolist

\* np.array(square_data, dtype=float) of a list of equally long lists of
\* numbers: a 2-D array of floats, each cell held as twice its value
np_array(square_data) ==
    [ndim |-> 2,
     shape |-> <<Len(square_data.items), Len(square_data.items[1].items)>>,
     dtype |-> "float",
     cells |-> [r \in 1..Len(square_data.items) |->
                  [c \in 1..Len(square_data.items[r].items) |->
                      TwiceVal(square_data.items[r].items[c])]]]

\* np.rint of the float h/2: the nearest integer, a tie going to the even one
rint(h) ==
    IF h % 2 = 0 THEN h \div 2
    ELSE IF ((h - 1) \div 2) % 2 = 0 THEN (h - 1) \div 2 ELSE (h + 1) \div 2

Abs(x) == IF x < 0 THEN -x ELSE x

\* np.allclose(a, b) for one cell a = h/2 and b = rint(a), with numpy's default
\* tolerances: |a - b| <= 1e-08 + 1e-05 * |b|, both sides times 2e8
IsClose(h) == 100000000 * Abs(h - 2 * rint(h)) <= 2 + 2000 * Abs(rint(h))

\* np.allclose(array, np.rint(array))
allclose_rint(array) ==
    \A r \in 1..array.shape[1] : \A c \in 1..array.shape[2] : IsClose(array.cells[r][c])

\* np.rint(array).astype(int)
rint_astype_int(array) ==
    [array EXCEPT !.dtype = "int",
                  !.cells = [r \in 1..array.shape[1] |->
                               [c \in 1..array.shape[2] |-> rint(array.cells[r][c])]]]

\* array.tolist(): nested lists of Python ints or floats
tolist(array) ==
    PyList([r \in 1..array.shape[1] |->
              PyList([c \in 1..array.shape[2] |->
                        IF array.dtype = "int" THEN PyInt(array.cells[r][c])
                        ELSE PyFloat(array.cells[r][c])])])

----------------------------------------------------------------------------
\* _parse_magic_square_response

\* The failures, named as the specification names them:
\*   InvalidArgument        ValueError("Magic square size must be a positive integer.")
\*   ServiceUnavailable     RuntimeError("Failed to contact the MATLAB magic square service.")
\*   InvalidResponseFormat  RuntimeError("Magic square service did not return valid JSON.")
\*   MissingMatrix          ValueError("Magic square data was not present in the service response.")
\*   MalformedMatrix        ValueError("Response did not contain a square matrix structure.")
\*   SizeMismatch           ValueError("Mismatch between requested size and the matrix ...")
\*   ValueError             the ValueError int() raises inside _extract_size
Failure(kind, payload) ==
    [kind |-> kind, size |-> None, square |-> None, metadata |-> None,
     payload |-> payload]

\* the check without the comparison of the two dimensions
NotSquareNdimOnly(array) == array.ndim # 2

\* line 129: the array is rejected as not a square matrix
NotSquare(array) == array.ndim # 2 \/ array.shape[1] # array.shape[2]

\* lines 134-135
Normalise(array) == IF allclose_rint(array) THEN rint_astype_int(array) ELSE array

\* line 137: requested_size or _extract_size(payload) or array.shape[0]
ResolvedSize(payload, requested_size, array) ==
    IF Truthy(requested_size) THEN requested_size
    ELSE LET found == _extract_size(payload)
         IN  IF Truthy(found) THEN found ELSE PyInt(array.shape[1])

\* the comparison with > in the place of !=
SizeDiffersAbove(resolved_size, array) == IntVal(resolved_size) > array.shape[1]

\* line 138: resolved_size != array.shape[0]
SizeDiffers(resolved_size, array) == IntVal(resolved_size) # array.shape[1]

\* metadata.setdefault(key, value)
setdefault(d, key, value) ==
    IF HasKey(d, key) THEN d ELSE PyDict(Append(d.entries, Entry(key, value)))

\* the metadata built in the payload itself, without dict(payload)
BuildMetadataInPlace(payload) ==
    IF IsDict(payload)
    THEN LET debug_info == _extract_debug(payload)
             metadata == IF debug_info.t # "null"
                         THEN setdefault(payload, "debug", debug_info)
                         ELSE payload
         IN  [metadata |-> metadata, payload |-> metadata]
    ELSE [metadata |-> PyDict(<<Entry("response", payload)>>), payload |-> payload]

\* lines 143-150: the metadata, and the payload object as the call leaves it
\* (dict(payload) is a new dict, so setdefault does not touch the payload)
BuildMetadata(payload) ==
    IF IsDict(payload)
    THEN LET copy == PyDict(payload.entries)
             debug_info == _extract_debug(copy)
         IN  [metadata |-> IF debug_info.t # "null"
                           THEN setdefault(copy, "debug", debug_info)
                           ELSE copy,
              payload |-> payload]
    ELSE [metadata |-> PyDict(<<Entry("response", payload)>>), payload |-> payload]

_parse_magic_square_response(payload, requested_size) ==
    LET square_data == _extract_square(payload)
    IN  IF square_data.t = "null" THEN Failure("MissingMatrix", payload)
        ELSE LET array == np_array(square_data)
             IN  IF NotSquare(array) THEN Failure("MalformedMatrix", payload)
                 ELSE LET resolved_size == ResolvedSize(payload, requested_size, array)
                          built == BuildMetadata(payload)
                      IN  IF resolved_size.t = "raise"
                          THEN Failure(resolved_size.exc, payload)
                          ELSE IF SizeDiffers(resolved_size, array)
                          THEN Failure("SizeMismatch", payload)
                          ELSE [kind |-> "ok",
                                size |-> resolved_size,
                                square |-> Normalise(array),
                                metadata |-> built.metadata,
                                payload |-> built.payload]

\* the serialisation that never adds the metadata
as_dict_no_metadata(result) ==
    PyDict(<<Entry("size", result.size), Entry("square", tolist(result.square))>>)

\* MagicSquareResult.as_dict
as_dict(result) ==
    LET data_ == <<Entry("size", result.size), Entry("square", tolist(result.square))>>
    IN  IF Truthy(result.metadata)
        THEN PyDict(Append(data_, Entry("metadata", result.metadata)))
        ELSE PyDict(data_)

----------------------------------------------------------------------------
\* generate_magic_square

API_URL == "https://matlab-0j1h.onrender.com/mymagic/mymagic"

timeout == 30

\* the guard with < in the place of <=
InvalidSizeNegative(n) == n < 0

\* line 178
InvalidSize(n) == n <= 0

\* lines 181-183: the JSON body of the request
RequestPayload(n, d) ==
    IF d THEN PyDict(<<Entry("n", PyInt(n)), Entry("debug", PyBool(TRUE))>>)
    ELSE PyDict(<<Entry("n", PyInt(n))>>)

\* line 186: the one requests.post of a call
PostRequest(n, d) == [url |-> API_URL, json |-> RequestPayload(n, d), timeout |-> timeout]

\* what the tool hands back: the dict it returns, or the failure it raises
Returned(value) == [kind |-> "ok", returned |-> value]

Raises(kind) == [kind |-> kind, returned |-> None]

\* lines 196-197
ParseAndSerialise(payload, n) ==
    LET result == _parse_magic_square_response(payload, PyInt(n))
    IN  IF result.kind = "ok" THEN Returned(as_dict(result)) ELSE Raises(result.kind)

----------------------------------------------------------------------------
\* Inputs

\* the largest matrix dimension and size of the bounded inputs
MaxDim == 2

\* the most entries of a generated mapping
MaxKeys == 2

\* the longest generated string
MaxDigits == 2

\* an r x c grid of ints, numbered row by row
IntGrid(r, c) ==
    PyList([i \in 1..r |-> PyList([j \in 1..c |-> PyInt((i - 1) * c + j)])])

\* a d x d grid of floats: whole numbers (odd = FALSE) or halves (odd = TRUE)
FloatGrid(d, odd) ==
    PyList([i \in 1..d |->
              PyList([j \in 1..d |->
                        PyFloat(2 * ((i - 1) * d + j) + (IF odd THEN 1 ELSE 0))])])

\* [[2,7,6],[9,5,1],[4,3,8]]
LoShu ==
    PyList(<<PyList(<<PyInt(2), PyInt(7), PyInt(6)>>),
             PyList(<<PyInt(9), PyInt(5), PyInt(1)>>),
             PyList(<<PyInt(4), PyInt(3), PyInt(8)>>)>>)

\* [[1,2],[3,4,5]]
Ragged ==
    PyList(<<PyList(<<PyInt(1), PyInt(2)>>),
             PyList(<<PyInt(3), PyInt(4), PyInt(5)>>)>>)

\* [[]]
EmptyRow == PyList(<<PyList(<<>>)>>)

\* [[True]]
BoolGrid == PyList(<<PyList(<<PyBool(TRUE)>>)>>)

SquareGrids == {IntGrid(d, d) : d \in 1..MaxDim}

\* the mappings of 1..MaxKeys entries, in every order, over a set of entries
RECURSIVE EntrySeqs(_, _)
EntrySeqs(entries, n) ==
    IF n = 0 THEN {<<>>}
    ELSE LET shorter == EntrySeqs(entries, n - 1)
         IN  shorter \cup
             {Append(q, e) : <<q, e>> \in
                 {<<q, e>> \in shorter \X entries :
                     /\ Len(q) = n - 1
                     /\ \A m \in 1..Len(q) : q[m].key # e.key}}

Dicts(keys, values, n) ==
    {PyDict(q) : q \in EntrySeqs({Entry(k, v) : k \in keys, v \in values}, n) \ {<<>>}}

\* the strings of decimal digits of 1..n characters over "0" and "7"
RECURSIVE DigitStrings(_)
DigitStrings(n) ==
    IF n = 0 THEN {<<>>}
    ELSE DigitStrings(n - 1) \cup
         {Append(q, c) : <<q, c>> \in
             {<<q, c>> \in DigitStrings(n - 1) \X {"0", "7"} : Len(q) = n - 1}}

\* what the service may answer to generate_magic_square
ServiceValues ==
    {LoShu, IntGrid(1, 2), Ragged, BoolGrid, FloatGrid(2, FALSE), FloatGrid(2, TRUE),
     PyStr(<<"o", "k">>)} \cup SquareGrids

ServicePayloads ==
    Dicts({"magic_square", "result", "debug", "status"}, ServiceValues, MaxKeys)
    \cup {LoShu,
          PyDict(<<Entry("result", PyDict(<<Entry("square", FloatGrid(2, FALSE)),
                                            Entry("n", PyInt(2))>>)),
                   Entry("debug", PyStr(<<"t", "r", "a", "c", "e">>))>>)}

\* the payloads _extract_square is applied to
SquareValues ==
    SquareGrids \cup
    {IntGrid(1, 2), Ragged, PyInt(5),
     PyDict(<<Entry("square", IntGrid(1, 1))>>),
     PyDict(<<Entry("status", IntGrid(1, 1))>>),
     PyList(<<PyInt(5), IntGrid(1, 1)>>)}

SquarePayloads ==
    SquareValues \cup
    Dicts({preferred_keys[n] : n \in 1..Len(preferred_keys)} \cup {"status"},
          SquareValues, MaxKeys)

\* the payloads _extract_size is applied to
SizeLeaves ==
    {PyInt(i) : i \in -1..MaxDim} \cup {PyBool(TRUE), PyBool(FALSE), PyFloat(4), None}
    \cup {PyStr(q) : q \in DigitStrings(MaxDigits)}
    \cup {PyStr(<<"x">>), PyStr(<<SuperscriptTwo>>)}

SizeKeys == {candidate_keys[n] : n \in 1..Len(candidate_keys)} \cup {"status"}

SizeValues ==
    SizeLeaves
    \cup Dicts(SizeKeys, {PyInt(2), PyStr(<<"0">>), PyStr(<<"x">>)}, 1)
    \cup {PyList(<<PyDict(<<Entry("n", PyInt(2))>>)>>)}

SizePayloads == SizeValues \cup Dicts(SizeKeys, SizeValues, MaxKeys)

\* the payloads _parse_magic_square_response is applied to
NormLeaves ==
    SquareGrids \cup
    {IntGrid(1, 2), EmptyRow, Ragged, PyInt(2), PyStr(<<"0">>), None}

NormValues ==
    NormLeaves
    \cup Dicts({"n", "logs"}, {PyInt(1)}, 1)
    \cup {PyDict(<<Entry("square", IntGrid(1, 1))>>)}

NormPayloads ==
    NormLeaves \cup Dicts({"square", "n", "debug", "logs", "status"}, NormValues, MaxKeys)

----------------------------------------------------------------------------
\* The tool: one call of generate_magic_square

Init ==
    /\ pc = "idle"
    /\ size = 0
    /\ debug = FALSE
    /\ requests = <<>>
    /\ response = None
    /\ data = None
    /\ outcome = None

\* lines 178-179: a call with a size that is not positive is refused
CallInvalid(n, d) ==
    /\ pc = "idle"
    /\ InvalidSize(n)
    /\ size' = n
    /\ debug' = d
    /\ outcome' = Raises("InvalidArgument")
    /\ pc' = "done"
    /\ UNCHANGED <<requests, response, data>>

\* lines 178-183: a call with a positive size goes on to the request
Call(n, d) ==
    /\ pc = "idle"
    /\ ~InvalidSize(n)
    /\ size' = n
    /\ debug' = d
    /\ pc' = "post"
    /\ UNCHANGED <<requests, response, data, outcome>>

\* the failed request sent again
PostFailsRetry ==
    /\ pc = "post"
    /\ requests' = Append(requests, PostRequest(size, debug))
    /\ UNCHANGED <<pc, size, debug, response, data, outcome>>

\* lines 186-189: the request is sent; the connection fails, times out, or
\* raise_for_status rejects the status
PostFails ==
    /\ pc = "post"
    /\ requests' = Append(requests, PostRequest(size, debug))
    /\ outcome' = Raises("ServiceUnavailable")
    /\ pc' = "done"
    /\ UNCHANGED <<size, debug, response, data>>

\* what the service may send back with a success status
ServiceBodies ==
    {[t |-> "body", valid |-> FALSE, json |-> None]} \cup
    {[t |-> "body", valid |-> TRUE, json |-> p] : p \in ServicePayloads}

\* lines 186-187: the request is sent and the service answers with success
PostReturns ==
    /\ pc = "post"
    /\ requests' = Append(requests, PostRequest(size, debug))
    /\ \E body \in ServiceBodies : response' = body
    /\ pc' = "json"
    /\ UNCHANGED <<size, debug, data, outcome>>

\* lines 191-194: the body is not JSON
JsonFails ==
    /\ pc = "json"
    /\ ~response.valid
    /\ outcome' = Raises("InvalidResponseFormat")
    /\ pc' = "done"
    /\ UNCHANGED <<size, debug, requests, response, data>>

\* lines 191-197: the body is parsed, normalised and serialised
Finish ==
    /\ pc = "json"
    /\ response.valid
    /\ data' = response.json
    /\ outcome' = ParseAndSerialise(response.json, size)
    /\ pc' = "done"
    /\ UNCHANGED <<size, debug, requests, response>>

\* the sizes the tool is called with
SizeArgs == -1..(MaxDim + 1)

Next ==
    \/ \E n \in SizeArgs, d \in BOOLEAN : CallInvalid(n, d)
    \/ \E n \in SizeArgs, d \in BOOLEAN : Call(n, d)
    \/ PostFails
    \/ PostReturns
    \/ JsonFails
    \/ Finish

Spec == Init /\ [][Next]_vars

----------------------------------------------------------------------------
\* The functions on their own: the argument is drawn at the start, the call
\* is one step

InitCall(payloads, sizes) ==
    /\ pc = "ready"
    /\ size \in sizes
    /\ debug = FALSE
    /\ requests = <<>>
    /\ \E p \in payloads : response = [t |-> "body", valid |-> TRUE, json |-> p] /\ data = p
    /\ outcome = None

\* _parse_magic_square_response(data, size); data is the payload object as
\* the call leaves it
CallParse ==
    /\ pc = "ready"
    /\ outcome' = _parse_magic_square_response(data, PyInt(size))
    /\ data' = outcome'.payload
    /\ pc' = "returned"
    /\ UNCHANGED <<size, debug, requests, response>>

InitNormalize == InitCall(NormPayloads, 0..MaxDim)

SpecNormalize == InitNormalize /\ [][CallParse]_vars

\* _extract_square(data)
CallExtractSquare ==
    /\ pc = "ready"
    /\ outcome' = _extract_square(data)
    /\ pc' = "returned"
    /\ UNCHANGED <<size, debug, requests, response, data>>

InitSquare == InitCall(SquarePayloads, {0})

SpecSquare == InitSquare /\ [][CallExtractSquare]_vars

\* _extract_size(data)
CallExtractSize ==
    /\ pc = "ready"
    /\ outcome' = _extract_size(data)
    /\ pc' = "returned"
    /\ UNCHANGED <<size, debug, requests, response, data>>

InitSize == InitCall(SizePayloads, {0})

SpecSize == InitSize /\ [][CallExtractSize]_vars

----------------------------------------------------------------------------
\* Vocabulary of the properties

\* the payload the call was given
Given == response.json

\* a valid n x n numeric grid, n >= 1
IsSquareGrid(v) ==
    /\ IsList(v)
    /\ Len(v.items) >= 1
    /\ \A r \in 1..Len(v.items) :
        /\ IsList(v.items[r])
        /\ Len(v.items[r].items) = Len(v.items)
        /\ \A c \in 1..Len(v.items[r].items) : IsInstanceNumber(v.items[r].items[c])

\* a sequence of numeric rows whose lengths are not all equal
IsRaggedArray(v) ==
    /\ IsList(v)
    /\ \A r \in 1..Len(v.items) :
        /\ IsList(v.items[r])
        /\ \A c \in 1..Len(v.items[r].items) : IsInstanceNumber(v.items[r].items[c])
    /\ \E r, q \in 1..Len(v.items) : Len(v.items[r].items) # Len(v.items[q].items)

\* the only matrix candidate of the payload is a ragged array: the payload is
\* one, or is a mapping that holds one and besides it only scalars
RaggedOnly(p) ==
    \/ IsRaggedArray(p)
    \/ /\ IsDict(p)
       /\ \E n \in 1..Len(p.entries) : IsRaggedArray(p.entries[n].val)
       /\ \A n \in 1..Len(p.entries) :
            \/ IsRaggedArray(p.entries[n].val)
            \/ ~IsList(p.entries[n].val) /\ ~IsDict(p.entries[n].val)

\* some list inside v, at any depth, is a rectangular numeric grid
RECURSIVE ContainsGrid(_)
ContainsGrid(v) ==
    IF IsList(v)
    THEN IsNumericGrid(v) \/ \E n \in 1..Len(v.items) : ContainsGrid(v.items[n])
    ELSE IF IsDict(v)
    THEN \E n \in 1..Len(v.entries) : ContainsGrid(v.entries[n].val)
    ELSE FALSE

\* the preferred keys as the claim lists them
ClaimedKeys == <<"magic_square", "magicSquare", "square", "result", "data", "output">>

\* the failures of a call that has sent its request
LateFailures ==
    {"ServiceUnavailable", "InvalidResponseFormat", "MissingMatrix",
     "MalformedMatrix", "SizeMismatch"}

----------------------------------------------------------------------------
\* Properties of _parse_magic_square_response (SpecNormalize)

\* C1: whenever _parse_magic_square_response returns a result, every row of
\* the square is as long as the square has rows, the size is that row count,
\* and a requested size > 0 is the size of the result.
C1_SquareOfSize ==
    pc = "returned" /\ outcome.kind = "ok" =>
        LET rows == Len(outcome.square.cells)
        IN  /\ rows = outcome.square.shape[1]
            /\ \A r \in 1..rows : Len(outcome.square.cells[r]) = rows
            /\ IntVal(outcome.size) = rows
            /\ (size > 0 => IntVal(outcome.size) = size)

C1_Witness ==
    /\ pc = "returned"
    /\ outcome.kind = "ok"
    /\ size = 2
    /\ Len(outcome.square.cells) = 2

\* C2 as claimed: a matrix is found, the requested size is > 0 and differs
\* from the matrix's row count, so the call fails with SizeMismatch.
C2_Original ==
    pc = "returned" /\ size > 0 =>
        LET found == _extract_square(Given)
        IN  found.t # "null" /\ Len(found.items) # size => outcome.kind = "SizeMismatch"

\* C2 as amended: a *square* matrix is found, the requested size is > 0 and
\* differs from the matrix's row count, so the call fails with SizeMismatch.
C2_SquareMismatch ==
    pc = "returned" /\ size > 0 =>
        LET found == _extract_square(Given)
        IN  found.t # "null" /\ IsSquareGrid(found) /\ Len(found.items) # size
                => outcome.kind = "SizeMismatch"

C2_Witness ==
    /\ pc = "returned"
    /\ size = 1
    /\ IsSquareGrid(_extract_square(Given))
    /\ Len(_extract_square(Given).items) = 2
    /\ outcome.kind = "SizeMismatch"

\* C3 as claimed: a payload whose only matrix candidate is a ragged array
\* fails with MalformedMatrix, for every requested size.
C3_Original ==
    pc = "returned" /\ RaggedOnly(Given) => outcome.kind = "MalformedMatrix"

\* C3 as amended: a payload whose only matrix candidate is a ragged array
\* fails with MissingMatrix, for every requested size.
C3_RaggedIsMissing ==
    pc = "returned" /\ RaggedOnly(Given) => outcome.kind = "MissingMatrix"

C3_Witness ==
    /\ pc = "returned"
    /\ size = 2
    /\ IsDict(Given)
    /\ HasKey(Given, "square")
    /\ Lookup(Given, "square") = Ragged
    /\ RaggedOnly(Given)
    /\ outcome.kind = "MissingMatrix"

\* C9 as claimed: with requested size 0 and a square matrix of dimension d
\* found, a size s resolved from the payload is the effective size (size s
\* returned when s = d, SizeMismatch when s # d), and with no size resolved
\* the call returns size d.
C9_Original ==
    pc = "returned" /\ size = 0 =>
        LET found == _extract_square(Given)
            s == _extract_size(Given)
        IN  found.t # "null" /\ IsSquareGrid(found) =>
                IF s.t = "null"
                THEN outcome.kind = "ok" /\ IntVal(outcome.size) = Len(found.items)
                ELSE /\ IsInstanceInt(s)
                     /\ IntVal(s) = Len(found.items) =>
                            outcome.kind = "ok" /\ outcome.size = s
                     /\ IntVal(s) # Len(found.items) => outcome.kind = "SizeMismatch"

\* C10: on success the metadata of a mapping payload holds every top-level
\* key with the payload's value, holds "debug" with the result of
\* _extract_debug exactly when the payload has no "debug" key and
\* _extract_debug found something, and holds nothing else; the metadata of any
\* other payload is {"response": payload}; the payload object is unchanged.
C10_Metadata ==
    pc = "returned" /\ outcome.kind = "ok" =>
        /\ data = Given
        /\ IF IsDict(Given)
           THEN LET found == _extract_debug(Given)
                    added == ~HasKey(Given, "debug") /\ found.t # "null"
                IN  /\ \A k \in Keys(Given) :
                          /\ HasKey(outcome.metadata, k)
                          /\ Lookup(outcome.metadata, k) = Lookup(Given, k)
                    /\ Keys(outcome.metadata) =
                          Keys(Given) \cup (IF added THEN {"debug"} ELSE {})
                    /\ added => Lookup(outcome.metadata, "debug") = found
                    /\ Len(outcome.metadata.entries) = Cardinality(Keys(outcome.metadata))
           ELSE outcome.metadata = PyDict(<<Entry("response", Given)>>)

C10_Witness ==
    /\ pc = "returned"
    /\ outcome.kind = "ok"
    /\ IsDict(Given)
    /\ ~HasKey(Given, "debug")
    /\ HasKey(Given, "logs")
    /\ HasKey(outcome.metadata, "debug")
    /\ Lookup(outcome.metadata, "debug") = Lookup(Given, "logs")

----------------------------------------------------------------------------
\* Properties of _extract_square (SpecSquare)

\* C4 as claimed: a valid n x n numeric grid stored under any preferred key of
\* a mapping is what _extract_square returns, whatever else the mapping holds.
C4_Original ==
    pc = "returned" /\ IsDict(data) =>
        \A n \in 1..Len(ClaimedKeys) :
            HasKey(data, ClaimedKeys[n]) /\ IsSquareGrid(Lookup(data, ClaimedKeys[n]))
                => outcome = Lookup(data, ClaimedKeys[n])

\* C4 as amended: a valid n x n numeric grid stored under a preferred key of a
\* mapping is what _extract_square returns, provided no preferred key earlier
\* in the list is present with a value that holds a rectangular numeric grid.
C4_FirstPreferredGrid ==
    pc = "returned" /\ IsDict(data) =>
        \A n \in 1..Len(ClaimedKeys) :
            /\ HasKey(data, ClaimedKeys[n])
            /\ IsSquareGrid(Lookup(data, ClaimedKeys[n]))
            /\ \A m \in 1..(n - 1) :
                  HasKey(data, ClaimedKeys[m]) => ~ContainsGrid(Lookup(data, ClaimedKeys[m]))
            => outcome = Lookup(data, ClaimedKeys[n])

C4_Witness ==
    /\ pc = "returned"
    /\ IsDict(data)
    /\ Len(data.entries) = 2
    /\ data.entries[1].key = "status"
    /\ ContainsGrid(data.entries[1].val)
    /\ data.entries[2].key = "output"
    /\ IsSquareGrid(data.entries[2].val)
    /\ data.entries[1].val # data.entries[2].val
    /\ outcome = data.entries[2].val

----------------------------------------------------------------------------
\* Properties of _extract_size (SpecSize)

\* C8 as claimed: for every JSON value, _extract_size finds nothing or
\* returns a positive integer.
C8_Original ==
    pc = "returned" =>
        \/ outcome.t = "null"
        \/ IsInstanceInt(outcome) /\ IntVal(outcome) >= 1

----------------------------------------------------------------------------
\* Properties of generate_magic_square (Spec)

LoShuPayload == PyDict(<<Entry("magic_square", LoShu)>>)

\* the call of the scenario: size=3, debug=false, and the service returns
\* {"magic_square": [[2,7,6],[9,5,1],[4,3,8]]}
LoShuCall ==
    /\ pc = "done"
    /\ size = 3
    /\ ~debug
    /\ response.t # "null"
    /\ response.valid
    /\ response.json = LoShuPayload

\* C5 as claimed: the call of the scenario returns {size: 3, square: the
\* matrix} with no metadata field.
C5_Original ==
    LoShuCall =>
        /\ outcome.kind = "ok"
        /\ Keys(outcome.returned) = {"size", "square"}
        /\ Lookup(outcome.returned, "size") = PyInt(3)
        /\ Lookup(outcome.returned, "square") = LoShu

\* C5 as amended: the call of the scenario returns {size: 3, square: the
\* matrix, metadata: {"magic_square": the matrix}}: the metadata field is
\* present and holds the service's mapping.
C5_WithMetadata ==
    LoShuCall =>
        /\ outcome.kind = "ok"
        /\ Keys(outcome.returned) = {"size", "square", "metadata"}
        /\ Len(outcome.returned.entries) = 3
        /\ Lookup(outcome.returned, "size") = PyInt(3)
        /\ Lookup(outcome.returned, "square") = LoShu
        /\ Lookup(outcome.returned, "metadata") = LoShuPayload

C5_Witness == LoShuCall /\ outcome.kind = "ok" /\ Len(requests) = 1

\* C6: a call with size <= 0 fails with InvalidArgument at once, and no
\* request is ever sent during it.
C6_NoRequestOnInvalidSize ==
    pc # "idle" /\ size <= 0 =>
        /\ pc = "done"
        /\ outcome.kind = "InvalidArgument"
        /\ outcome.returned = None
        /\ requests = <<>>

C6_Witness ==
    /\ pc = "done"
    /\ size = 0
    /\ outcome.kind = "InvalidArgument"
    /\ requests = <<>>

\* C7: a call sends at most one request; once it has ended nothing more
\* happens; a failure of the request, of the JSON parse or of the normaliser
\* is the failure the call ends with, after exactly one request; and a call
\* that fails returns nothing.
C7_OneRequestNoRetry ==
    /\ Len(requests) <= 1
    /\ pc = "done" =>
        /\ ~ENABLED Next
        /\ outcome.kind # "ok" <=> outcome.returned = None
        /\ outcome.kind \in LateFailures => Len(requests) = 1
        /\ size > 0 /\ response.t = "null" => outcome.kind = "ServiceUnavailable"
        /\ size > 0 /\ response.t # "null" =>
              IF ~response.valid THEN outcome.kind = "InvalidResponseFormat"
              ELSE outcome.kind = _parse_magic_square_response(response.json, PyInt(size)).kind

C7_Witness ==
    /\ pc = "done"
    /\ outcome.kind = "ServiceUnavailable"
    /\ outcome.returned = None
    /\ Len(requests) = 1

====
